---- MODULE Spec2Model ----
(***************************************************************************)
(* executionbackup: NodeInstance / NodeRouter of src/executionbackup/main.py *)
(*                                                                         *)
(* The program is single-threaded asyncio code.  A coroutine runs without  *)
(* interruption between two suspension points, so every action below is    *)
(* one such uninterrupted stretch.  The suspension points are the outbound *)
(* HTTP calls (session.post in check_alive and do_request), the gather in  *)
(* recheck and the sleep in repeat_check.  get_execution_node awaits only  *)
(* itself and therefore never suspends: it is evaluated inside the action  *)
(* that calls it.                                                          *)
(***************************************************************************)
EXTENDS Integers, Sequences, FiniteSets

(* ------------------------------ bounds -------------------------------- *)
NumNodes == 2          \* len(self.urls): number of configured nodes
MaxReqs == 1           \* request handlers that may be in flight at once
RecursionLimit == 8    \* interpreter frames available to get_execution_node

Nodes == 0 .. (NumNodes - 1)
Reqs == 1 .. MaxReqs

(* Python's None / an attribute that has not been assigned yet *)
Unset == -1

(* ----------------------------- requests ------------------------------- *)
GetPayload == "engine_getPayloadV1"
ForkchoiceUpdated == "engine_forkchoiceUpdatedV1"
Methods == {GetPayload, ForkchoiceUpdated, "eth_blockNumber"}

(* resp.headers is a multidict: a sequence of <<name, value>> pairs in     *)
(* which a name may occur more than once                                   *)
HdrJson == << <<"Content-Type", "application/json">> >>
HdrCookies == << <<"Set-Cookie", "a=1">>, <<"Set-Cookie", "b=2">> >>

(* what a node may answer to a forwarded body: body text, status, headers. *)
(* A non-2xx answer is an ordinary response (raise_for_status is not set). *)
NodeResponses ==
    { [text |-> "result", status |-> 200, headers |-> HdrJson],
      [text |-> "rpc error", status |-> 500, headers |-> HdrCookies] }

(* exceptions session.post may raise in do_request: one the except clause  *)
(* of do_request names and one it does not (the total timeout of aiohttp   *)
(* raises asyncio.TimeoutError)                                            *)
ForwardErrors == {"ClientConnectionError", "asyncio.TimeoutError"}

(* outcomes of the eth_syncing probe: result falsy, result truthy, or any  *)
(* exception (timeout, connection error, malformed answer)                 *)
ProbeOutcomes == {"not_syncing", "syncing", "error"}

(* ------------------------- pure helpers ------------------------------- *)

(* dict(resp.headers): one entry per name, in order of first occurrence,   *)
(* holding the first value of that name                                    *)
RECURSIVE DictFrom(_, _)
DictFrom(h, acc) ==
    IF h = << >> THEN acc
    ELSE IF \E i \in DOMAIN acc : acc[i][1] = Head(h)[1]
         THEN DictFrom(Tail(h), acc)
         ELSE DictFrom(Tail(h), Append(acc, Head(h)))

Dict(h) == DictFrom(h, << >>)

(* ujson.dumps / ujson.loads of a str -> str dict *)
dumps(d) == <<"json", d>>
loads(s) == s[2]

(* the set of header lines of a header list *)
HeaderSet(h) == {h[i] : i \in DOMAIN h}

(* classes that derive from BaseException and can be raised *)
ExceptionClasses == {"ServerOffline"}

(* `raise cls()`: the exception that propagates *)
Raise(cls) == IF cls \in ExceptionClasses THEN cls ELSE "TypeError"

(* the exceptions of session.post that are a timeout, a reset connection  *)
(* or a failed connect                                                    *)
ConnectivityFailures ==
    {"ServerTimeoutError", "ServerConnectionError", "ClientConnectionError",
     "ClientOSError", "asyncio.TimeoutError"}

(* the except clause of do_request *)
CaughtByDoRequest ==
    {"ServerTimeoutError", "ServerConnectionError", "ClientConnectionError",
     "ClientOSError", "ClientResponseError"}

(* what do_request returns for a response: (text, status, dumps(headers)) *)
DoRequestResult(resp) == <<resp.text, resp.status, dumps(Dict(resp.headers))>>

(* the value of r when nothing was returned *)
NoResult == <<"", 0, dumps(<< >>)>>

(* what the handler hands to req.respond / resp.send *)
NoReply == [status |-> 0, headers |-> << >>, body |-> "", sent |-> FALSE]
Respond(st, hd, body) == [status |-> st, headers |-> hd, body |-> body, sent |-> TRUE]

NoUpstreamBody == "{\"error\":\"no upstream nodes\"}"

VARIABLES
    status,        \* NodeInstance.status of every node
    lastEvent,     \* last node_online / node_offline event dispatched per node
    alive_count,   \* NodeRouter.alive_count
    dead_count,    \* NodeRouter.dead_count
    index,         \* NodeRouter.index
    setupPc,       \* position of setup()
    loopPc,        \* position of repeat_check()
    probe,         \* the check_alive tasks of the running recheck
    routerOnline,  \* node_router_online has been dispatched
    reqs,          \* the request handlers suspended in do_request
    tasks,         \* nodes with a broadcast do_request task in flight
    failedSince,   \* history: a forward marked the node offline after its probe
    sticky,        \* history: the node get_execution_node returned last, while
                   \*          its flag has stayed set
    lastSel,       \* history: the call of get_execution_node made by the last step
    lastSweep,     \* history: the recheck the last step completed
    observe,       \* whether the history below is recorded in this behaviour
    lastDone,      \* history: the request handler the last step ended
    lastCall,      \* history: the NodeInstance method the last step ran
    downSince      \* history: a forward to the node failed, no probe marked
                   \* it online since

vars == <<status, lastEvent, alive_count, dead_count, index, setupPc, loopPc,
          probe, routerOnline, reqs, tasks, failedSince, sticky, lastSel,
          lastSweep, observe, lastDone, lastCall, downSince>>

(* --------------------------- NodeInstance ----------------------------- *)

(* set_online: no-op when the flag is already set, else set it and        *)
(* dispatch node_online                                                   *)
set_online(st, n) == IF st[n] THEN st ELSE [st EXCEPT ![n] = TRUE]
online_event(st, ev, n) ==
    IF st[n] \/ ~observe THEN ev ELSE [ev EXCEPT ![n] = "node_online"]

(* set_offline that clears the flag of every node *)
set_offline_clears_all(st, n) == [m \in Nodes |-> FALSE]

(* set_offline that dispatches nothing and leaves the flag as it is *)
set_offline_keeps_flag(st, n) == st

(* set_offline: no-op when the flag is already clear, else clear it and   *)
(* dispatch node_offline                                                  *)
set_offline(st, n) == IF ~st[n] THEN st ELSE [st EXCEPT ![n] = FALSE]
offline_event(st, ev, n) ==
    IF ~st[n] \/ ~observe THEN ev ELSE [ev EXCEPT ![n] = "node_offline"]

(* the events one call of set_online / set_offline dispatches *)
online_emits_on_every_call(st, n) == <<"node_online">>
offline_emits_on_every_call(st, n) == <<"node_offline">>
online_emits(st, n) == IF st[n] THEN << >> ELSE <<"node_online">>
offline_emits(st, n) == IF ~st[n] THEN << >> ELSE <<"node_offline">>

(* check_alive: the value it returns for a probe outcome *)
check_alive(outcome) == outcome = "not_syncing"

(* ---------------------------- NodeRouter ------------------------------ *)

(* a count of the probes that returned False *)
CountFalse(results) == Cardinality({n \in Nodes : results[n] = "False"})

(* results.count(True) over the results gathered by recheck *)
CountTrue(results) == Cardinality({n \in Nodes : results[n] = "True"})

(* dead_count taken from the flags instead of from alive_count *)
DeadCountFromFlags(alive) == Cardinality({n \in Nodes : ~status[n]})

(* len(self.nodes) - self.alive_count *)
DeadCount(alive) == NumNodes - alive

(* a selector that steps the cursor past the node it returns *)
RECURSIVE get_execution_node_round_robin(_, _, _, _)
get_execution_node_round_robin(st, alive, idx, depth) ==
    IF depth > RecursionLimit
    THEN [kind |-> "RecursionError", node |-> Unset, index |-> idx]
    ELSE IF alive = 0
    THEN [kind |-> "OutOfAliveNodes", node |-> Unset, index |-> idx]
    ELSE LET i == IF idx >= NumNodes THEN 0 ELSE idx
         IN  IF ~st[i]
             THEN get_execution_node_round_robin(st, alive, i + 1, depth + 1)
             ELSE [kind |-> "node", node |-> i, index |-> i + 1]

(* a wrap that lets the position one past the end through *)
WrapIndexPastEnd(idx) == IF idx > NumNodes THEN 0 ELSE idx

(* lines 90-91: index is reset to 0 once it has run off the list *)
WrapIndex(idx) == IF idx >= NumNodes THEN 0 ELSE idx

(* the positions at which line 92 indexes self.nodes during one call of   *)
(* get_execution_node, frame by frame; a position off the list ends the   *)
(* call in IndexError                                                     *)
RECURSIVE IndexesRead(_, _, _, _)
IndexesRead(st, alive, idx, depth) ==
    IF depth > RecursionLimit \/ alive = 0
    THEN {}
    ELSE LET i == WrapIndex(idx)
         IN  {i} \cup (IF i \in DOMAIN st /\ ~st[i]
                       THEN IndexesRead(st, alive, i + 1, depth + 1)
                       ELSE {})

(* a selector that returns the lowest node whose flag is set, wherever    *)
(* the cursor is                                                          *)
get_execution_node_lowest_alive(st, alive, idx, depth) ==
    IF alive = 0
    THEN [kind |-> "OutOfAliveNodes", node |-> Unset, index |-> idx]
    ELSE IF \A n \in Nodes : ~st[n]
    THEN [kind |-> "RecursionError", node |-> Unset, index |-> idx]
    ELSE LET i == CHOOSE n \in Nodes : st[n] /\ \A m \in Nodes : st[m] => n <= m
         IN  [kind |-> "node", node |-> i, index |-> i]

(* get_execution_node, frame by frame.  depth counts the frames in use;   *)
(* a call that needs more than RecursionLimit frames ends in              *)
(* RecursionError.  kind "OutOfAliveNodes" is the raise statement of      *)
(* line 89.                                                               *)
RECURSIVE get_execution_node(_, _, _, _)
get_execution_node(st, alive, idx, depth) ==
    IF depth > RecursionLimit
    THEN [kind |-> "RecursionError", node |-> Unset, index |-> idx]
    ELSE IF alive = 0
    THEN [kind |-> "OutOfAliveNodes", node |-> Unset, index |-> idx]
    ELSE LET i == IF idx >= NumNodes THEN 0 ELSE idx
         IN  IF ~st[i]
             THEN get_execution_node(st, alive, i + 1, depth + 1)
             ELSE [kind |-> "node", node |-> i, index |-> i]

(* the exception a failed get_execution_node propagates to its caller *)
SelectorException(kind) ==
    IF kind = "OutOfAliveNodes" THEN Raise("OutOfAliveNodes") ELSE kind

(* setup() that does not await its recheck *)
SetupMayAnnounceEarly == setupPc \in {"recheck", "rechecked"}

(* setup() may dispatch node_router_online: its recheck has returned *)
SetupMayAnnounce == setupPc = "rechecked"

(* the methods class NodeRouter defines *)
RouterMethods ==
    {"recheck", "repeat_check", "setup", "get_execution_node",
     "do_engine_route", "route", "stop"}

(* r[i] is defined for the tuple do_request returns, not for the          *)
(* ServerOffline instance it returns after a caught failure               *)
Subscriptable(type) == type = "tuple"

(* route, from the return of do_request to the end of the handler: the    *)
(* reply handed to req.respond / resp.send and the exception that ends    *)
(* the handler ("" when it returns).  type is the type of r.              *)
route_reply(method, type, r) ==
    IF method = ForkchoiceUpdated
    THEN IF Subscriptable(type)
         THEN [reply |-> Respond(r[2], loads(r[3]), r[1]), exc |-> ""]
         ELSE [reply |-> NoReply, exc |-> "TypeError"]
    ELSE IF type = "ServerOffline"
    THEN IF Subscriptable(type)
         THEN [reply |-> Respond(r[2], loads(r[3]), NoUpstreamBody), exc |-> ""]
         ELSE [reply |-> NoReply, exc |-> "TypeError"]
    ELSE [reply |-> Respond(r[2], loads(r[3]), r[1]), exc |-> ""]

(* route line 120: the nodes a broadcast task is created for *)
BroadcastTargets(st, n) == {m \in Nodes : st[m] /\ m # n}

(* the broadcast tasks route creates, none for another method *)
TasksCreated(method, st, n) ==
    IF method = ForkchoiceUpdated THEN BroadcastTargets(st, n) ELSE {}

(* ------------------------------ history ------------------------------- *)
NoSel == [kind |-> "none", node |-> Unset, allDead |-> FALSE, alive |-> Unset,
          cursor |-> Unset, cursorAlive |-> FALSE, sticky |-> Unset]
NoDone == [done |-> FALSE, method |-> "", node |-> Unset, arrival |-> {},
           fwd |-> "none", upstream |-> NoResult, bcast |-> {},
           reply |-> NoReply, exc |-> ""]
NoSweep == [done |-> FALSE, results |-> [n \in Nodes |-> "idle"],
            failed |-> [n \in Nodes |-> FALSE]]
NoCall == [op |-> "none", node |-> Unset, setter |-> "", was |-> FALSE,
           again |-> FALSE, emits |-> << >>, result |-> ""]
IdleReq == [pc |-> "idle", method |-> "", node |-> Unset, arrival |-> {}]

(* a handler that ends: what it was and what the caller got *)
Done(q, fwd, upstream, bcast, out) ==
    IF ~observe THEN NoDone ELSE
    [done |-> TRUE, method |-> q.method, node |-> q.node, arrival |-> q.arrival,
     fwd |-> fwd, upstream |-> upstream, bcast |-> bcast, reply |-> out.reply,
     exc |-> out.exc]

(* check_alive on node n, the probe ending in outcome *)
CheckAliveCall(n, outcome) ==
    IF ~observe THEN NoCall ELSE
    [op |-> "check_alive", node |-> n,
     setter |-> IF check_alive(outcome) THEN "set_online" ELSE "set_offline",
     was |-> status[n],
     again |-> /\ lastCall.node = n
               /\ lastCall.setter = IF check_alive(outcome) THEN "set_online"
                                    ELSE "set_offline",
     emits |-> IF check_alive(outcome) THEN online_emits(status, n)
               ELSE offline_emits(status, n),
     result |-> IF check_alive(outcome) THEN "True" ELSE "False"]

(* do_request on node n, session.post ending in a response ("") or in     *)
(* exception e                                                            *)
DoRequestCall(n, e) ==
    IF ~observe THEN NoCall ELSE
    [op |-> "do_request", node |-> n,
     setter |-> IF e \in CaughtByDoRequest THEN "set_offline" ELSE "",
     was |-> status[n],
     again |-> /\ e \in CaughtByDoRequest
               /\ lastCall.node = n /\ lastCall.setter = "set_offline",
     emits |-> IF e \in CaughtByDoRequest THEN offline_emits(status, n) ELSE << >>,
     result |-> IF e = "" THEN "tuple"
                ELSE IF e \in CaughtByDoRequest THEN "ServerOffline"
                ELSE e]

(* downSince once do_request on node n has ended in exception e *)
DownAfterForward(n, e) ==
    IF observe /\ e \in ConnectivityFailures
    THEN [downSince EXCEPT ![n] = TRUE]
    ELSE downSince

(* downSince once check_alive on node n has returned *)
DownAfterProbe(n, outcome) ==
    IF check_alive(outcome) THEN [downSince EXCEPT ![n] = FALSE] ELSE downSince

Start ==
    /\ status = [n \in Nodes |-> FALSE]
    /\ lastEvent = [n \in Nodes |-> "none"]
    /\ alive_count = Unset
    /\ dead_count = Unset
    /\ index = Unset
    /\ setupPc = "new"
    /\ loopPc = "off"
    /\ probe = [n \in Nodes |-> "idle"]
    /\ routerOnline = FALSE
    /\ reqs = [r \in Reqs |-> IdleReq]
    /\ tasks = {}
    /\ failedSince = [n \in Nodes |-> FALSE]
    /\ sticky = Unset
    /\ lastSel = NoSel
    /\ lastSweep = NoSweep
    /\ lastDone = NoDone
    /\ lastCall = NoCall
    /\ downSince = [n \in Nodes |-> FALSE]


(* sticky after the flags became st: forgotten once its flag is clear *)
StickyAfter(st) == IF sticky # Unset /\ ~st[sticky] THEN Unset ELSE sticky

(* recheck, up to the await of gather: one check_alive task per node, each *)
(* suspended in its session.post                                           *)
RecheckBegin ==
    /\ probe' = [n \in Nodes |-> "pending"]
    /\ failedSince' = [n \in Nodes |-> FALSE]

(* setup: the nodes are created (status False) and recheck is entered *)
Setup ==
    /\ setupPc = "new"
    /\ setupPc' = "recheck"
    /\ RecheckBegin
    /\ lastSel' = NoSel /\ lastSweep' = NoSweep /\ lastDone' = NoDone
    /\ UNCHANGED <<status, lastEvent, alive_count, dead_count, index, loopPc,
                   routerOnline, reqs, tasks, sticky, observe>>
    /\ lastCall' = NoCall
    /\ UNCHANGED downSince

(* one check_alive task resumes from session.post and runs to its return *)
CheckAliveReturn(n, outcome) ==
    /\ probe[n] = "pending"
    /\ IF check_alive(outcome)
       THEN /\ status' = set_online(status, n)
            /\ lastEvent' = online_event(status, lastEvent, n)
            /\ probe' = [probe EXCEPT ![n] = "True"]
       ELSE /\ status' = set_offline(status, n)
            /\ lastEvent' = offline_event(status, lastEvent, n)
            /\ probe' = [probe EXCEPT ![n] = "False"]
    /\ sticky' = StickyAfter(status')
    /\ lastSel' = NoSel /\ lastSweep' = NoSweep /\ lastDone' = NoDone
    /\ UNCHANGED <<alive_count, dead_count, index, setupPc, loopPc,
                   routerOnline, reqs, tasks, failedSince, observe>>
    /\ lastCall' = CheckAliveCall(n, outcome)
    /\ downSince' = DownAfterProbe(n, outcome)

(* gather has every result: recheck resumes and runs to its return *)
RecheckReturn ==
    /\ setupPc = "recheck" \/ loopPc = "recheck"
    /\ \A n \in Nodes : probe[n] \in {"True", "False"}
    /\ alive_count' = CountTrue(probe)
    /\ dead_count' = DeadCount(alive_count')
    /\ index' = 0
    /\ IF setupPc = "recheck"
       THEN setupPc' = "rechecked" /\ UNCHANGED loopPc
       ELSE loopPc' = "sleep" /\ UNCHANGED setupPc
    /\ probe' = [n \in Nodes |-> "idle"]
    /\ failedSince' = [n \in Nodes |-> FALSE]
    /\ lastSweep' = [done |-> TRUE, results |-> probe, failed |-> failedSince]
    /\ lastSel' = NoSel /\ lastDone' = NoDone
    /\ UNCHANGED <<status, lastEvent, routerOnline, reqs, tasks, sticky, observe>>
    /\ lastCall' = NoCall
    /\ UNCHANGED downSince

(* setup, after its recheck: dispatch node_router_online *)
SetupAnnounce ==
    /\ setupPc \in {"recheck", "rechecked"}
    /\ SetupMayAnnounce
    /\ setupPc' = "done"
    /\ routerOnline' = TRUE
    /\ lastSel' = NoSel /\ lastSweep' = NoSweep /\ lastDone' = NoDone
    /\ UNCHANGED <<status, lastEvent, alive_count, dead_count, index, loopPc,
                   probe, reqs, tasks, failedSince, sticky, observe>>
    /\ lastCall' = NoCall
    /\ UNCHANGED downSince

(* a repeat_check that calls recheck once and then sleeps for good *)
RepeatCheckOnce ==
    /\ setupPc = "done"
    /\ loopPc = "off"
    /\ loopPc' = "recheck"
    /\ RecheckBegin
    /\ lastSel' = NoSel /\ lastSweep' = NoSweep /\ lastDone' = NoDone
    /\ UNCHANGED <<status, lastEvent, alive_count, dead_count, index, setupPc,
                   routerOnline, reqs, tasks, sticky, observe>>
    /\ lastCall' = NoCall
    /\ UNCHANGED downSince

(* repeat_check: entered once setup has returned; each turn of the loop   *)
(* calls recheck, the sleep of the previous turn having elapsed           *)
RepeatCheck ==
    /\ setupPc = "done"
    /\ loopPc \in {"off", "sleep"}
    /\ loopPc' = "recheck"
    /\ RecheckBegin
    /\ lastSel' = NoSel /\ lastSweep' = NoSweep /\ lastDone' = NoDone
    /\ UNCHANGED <<status, lastEvent, alive_count, dead_count, index, setupPc,
                   routerOnline, reqs, tasks, sticky, observe>>
    /\ lastCall' = NoCall
    /\ UNCHANGED downSince

(* ------------------------- request handling --------------------------- *)

(* a request arrives: do_engine_route runs up to the await of do_request, *)
(* or to the exception that ends it                                       *)
DoEngineRoute(r, m) ==
    /\ routerOnline
    /\ reqs[r].pc = "idle"
    /\ lastSweep' = NoSweep
    /\ \A p \in Reqs : p < r => reqs[p].pc # "idle"   \* handlers are anonymous
    /\ LET q == [IdleReq EXCEPT !.method = m,
                                !.arrival = IF observe
                                            THEN {n \in Nodes : status[n]}
                                            ELSE {}]
       IN
       IF m = GetPayload
       THEN \* line 108: self.get_alive_node is not an attribute of NodeRouter
            /\ "get_alive_node" \notin RouterMethods
            /\ lastDone' = Done(q, "none", NoResult, {},
                                [reply |-> NoReply, exc |-> "AttributeError"])
            /\ lastSel' = NoSel
            /\ UNCHANGED <<index, sticky, reqs>>
       ELSE LET sel == get_execution_node(status, alive_count, index, 1)
                cur == IF index >= NumNodes THEN 0 ELSE index
            IN  /\ lastSel' =
                              [kind |-> sel.kind, node |-> sel.node,
                               allDead |-> \A n \in Nodes : ~status[n],
                               alive |-> alive_count, cursor |-> index,
                               cursorAlive |-> status[cur], sticky |-> sticky]
                /\ IF sel.kind = "node"
                   THEN /\ index' = sel.index
                        /\ sticky' = sel.node
                        /\ reqs' = [reqs EXCEPT ![r] =
                                      [q EXCEPT !.pc = "fwd", !.node = sel.node]]
                        /\ lastDone' = NoDone
                   ELSE /\ IF sel.kind = "RecursionError"
                           THEN \* the frame that overflows depends on the
                                \* interpreter's limit: index was incremented
                                \* just before it
                                index' \in 1 .. NumNodes
                           ELSE index' = sel.index
                        /\ lastDone' = Done(q, "none", NoResult, {},
                                [reply |-> NoReply,
                                 exc |-> SelectorException(sel.kind)])
                        /\ UNCHANGED <<sticky, reqs>>
    /\ UNCHANGED <<status, lastEvent, alive_count, dead_count, setupPc, loopPc,
                   probe, routerOnline, tasks, failedSince, observe>>
    /\ lastCall' = NoCall
    /\ UNCHANGED downSince

(* the awaited do_request returns the node's response; route runs to its end *)
DoRequestReturn(r, resp) ==
    /\ reqs[r].pc = "fwd"
    /\ LET q == reqs[r]
           res == DoRequestResult(resp)
           targets == TasksCreated(q.method, status, q.node)
       IN  /\ tasks' = tasks \cup targets
           /\ lastDone' = Done(q, "response",
                               <<resp.text, resp.status, resp.headers>>, targets,
                               route_reply(q.method, "tuple", res))
    /\ reqs' = [reqs EXCEPT ![r] = IdleReq]
    /\ lastSel' = NoSel /\ lastSweep' = NoSweep
    /\ UNCHANGED <<status, lastEvent, alive_count, dead_count, index, setupPc,
                   loopPc, probe, routerOnline, failedSince, sticky, observe>>
    /\ lastCall' = DoRequestCall(reqs[r].node, "")
    /\ UNCHANGED downSince

(* the awaited do_request ends in exception e.  One the except clause     *)
(* names: set_offline, ServerOffline() is returned and route continues.   *)
(* Any other propagates through route.                                    *)
DoRequestFail(r, e) ==
    /\ reqs[r].pc = "fwd"
    /\ LET q == reqs[r] IN
       IF e \in CaughtByDoRequest
       THEN LET st == set_offline(status, q.node)
                targets == TasksCreated(q.method, st, q.node)
            IN  /\ status' = st
                /\ lastEvent' = offline_event(status, lastEvent, q.node)
                /\ failedSince' = [failedSince EXCEPT ![q.node] =
                                     @ \/ (status[q.node] /\ probe[q.node] = "True")]
                /\ tasks' = tasks \cup targets
                /\ lastDone' = Done(q, "offline", NoResult, targets,
                                    route_reply(q.method, "ServerOffline", NoResult))
       ELSE /\ lastDone' = Done(q, "raised", NoResult, {},
                                [reply |-> NoReply, exc |-> e])
            /\ UNCHANGED <<status, lastEvent, failedSince, tasks>>
    /\ reqs' = [reqs EXCEPT ![r] = IdleReq]
    /\ sticky' = StickyAfter(status')
    /\ lastSel' = NoSel /\ lastSweep' = NoSweep
    /\ UNCHANGED <<alive_count, dead_count, index, setupPc, loopPc, probe,
                   routerOnline, observe>>
    /\ lastCall' = DoRequestCall(reqs[r].node, e)
    /\ downSince' = DownAfterForward(reqs[r].node, e)

(* tasks holds the nodes with at least one broadcast task in flight.      *)
(* The last task of node n returns a response; nobody reads it            *)
BroadcastReturn(n) ==
    /\ n \in tasks
    /\ tasks' = tasks \ {n}
    /\ lastSel' = NoSel /\ lastSweep' = NoSweep /\ lastDone' = NoDone
    /\ UNCHANGED <<status, lastEvent, alive_count, dead_count, index, setupPc,
                   loopPc, probe, routerOnline, reqs, failedSince, sticky, observe>>
    /\ lastCall' = DoRequestCall(n, "")
    /\ UNCHANGED downSince

(* a broadcast task's do_request ends in exception e: set_offline when    *)
(* the except clause names it, else the task dies with it.  more: other   *)
(* tasks of node n stay in flight                                         *)
BroadcastFail(n, e, more) ==
    /\ n \in tasks
    /\ tasks' = IF more THEN tasks ELSE tasks \ {n}
    /\ IF e \in CaughtByDoRequest
       THEN /\ status' = set_offline(status, n)
            /\ lastEvent' = offline_event(status, lastEvent, n)
            /\ failedSince' = [failedSince EXCEPT ![n] =
                                 @ \/ (status[n] /\ probe[n] = "True")]
       ELSE UNCHANGED <<status, lastEvent, failedSince>>
    /\ sticky' = StickyAfter(status')
    /\ lastSel' = NoSel /\ lastSweep' = NoSweep /\ lastDone' = NoDone
    /\ UNCHANGED <<alive_count, dead_count, index, setupPc, loopPc, probe,
                   routerOnline, reqs, observe>>
    /\ lastCall' = DoRequestCall(n, e)
    /\ downSince' = DownAfterForward(n, e)

Next ==
    \/ Setup
    \/ \E n \in Nodes, o \in ProbeOutcomes : CheckAliveReturn(n, o)
    \/ RecheckReturn
    \/ SetupAnnounce
    \/ RepeatCheck
    \/ \E r \in Reqs, m \in Methods : DoEngineRoute(r, m)
    \/ \E r \in Reqs, resp \in NodeResponses : DoRequestReturn(r, resp)
    \/ \E r \in Reqs, e \in ForwardErrors : DoRequestFail(r, e)
    \/ \E n \in Nodes : BroadcastReturn(n)
    \/ \E n \in Nodes, e \in ForwardErrors, more \in BOOLEAN : BroadcastFail(n, e, more)

(* the program alone *)
Init == Start /\ observe = FALSE
Spec == Init /\ [][Next]_vars

(* the program with the history of its calls, replies and events *)
InitObserved == Start /\ observe = TRUE
SpecObserved == InitObserved /\ [][Next]_vars

(* ---- class NodeInstance alone, its methods called in any order ------- *)

(* the fields and histories of the router, which no NodeInstance method   *)
(* touches                                                                *)
routerVars == <<alive_count, dead_count, index, setupPc, loopPc, probe,
                routerOnline, reqs, tasks, failedSince, sticky, lastSel,
                lastSweep, lastDone, observe>>

(* a caller awaits check_alive of node n and the probe ends in outcome *)
NodeCheckAlive(n, outcome) ==
    /\ IF check_alive(outcome)
       THEN /\ status' = set_online(status, n)
            /\ lastEvent' = online_event(status, lastEvent, n)
       ELSE /\ status' = set_offline(status, n)
            /\ lastEvent' = offline_event(status, lastEvent, n)
    /\ lastCall' = CheckAliveCall(n, outcome)
    /\ downSince' = DownAfterProbe(n, outcome)
    /\ UNCHANGED routerVars

(* a caller awaits do_request of node n: session.post ends in a response  *)
(* ("") or in exception e                                                 *)
NodeDoRequest(n, e) ==
    /\ IF e \in CaughtByDoRequest
       THEN /\ status' = set_offline(status, n)
            /\ lastEvent' = offline_event(status, lastEvent, n)
       ELSE UNCHANGED <<status, lastEvent>>
    /\ lastCall' = DoRequestCall(n, e)
    /\ downSince' = DownAfterForward(n, e)
    /\ UNCHANGED routerVars

NodeNext ==
    \/ \E n \in Nodes, o \in ProbeOutcomes : NodeCheckAlive(n, o)
    \/ \E n \in Nodes, e \in ForwardErrors \cup {""} : NodeDoRequest(n, e)

SpecNode == InitObserved /\ [][NodeNext]_vars

TypeOK ==
    /\ status \in [Nodes -> BOOLEAN]
    /\ alive_count \in {Unset} \cup (0 .. NumNodes)
    /\ index \in {Unset} \cup (0 .. NumNodes)
    /\ tasks \subseteq Nodes


(* ============================== claims ================================ *)

(* the node at the cursor once line 90-91 has wrapped it *)
Cursor == IF index >= NumNodes THEN 0 ELSE index

(* the step is the return of a recheck *)
SweepCompletes == ~lastSweep.done /\ lastSweep'.done

(* C1: whenever get_execution_node is called while every node's flag is    *)
(* clear, the call fails with the out-of-nodes condition (the raise of     *)
(* line 89); it does not recurse until the interpreter gives up.           *)
C1_TotalOutage ==
    (lastSel.kind # "none" /\ lastSel.allDead) => lastSel.kind = "OutOfAliveNodes"

(* C2: every request handler that ends has sent one response to the       *)
(* caller and ended without an exception.                                 *)
C2_EveryRequestAnswered ==
    lastDone.done => (lastDone.reply.sent /\ lastDone.exc = "")

(* C3: a request of another method than the two engine methods whose      *)
(* forward ended in the offline result is answered with the body          *)
(* {"error": "no upstream nodes"}.                                        *)
C3_OfflineFallback ==
    (lastDone.done /\ lastDone.method \notin {GetPayload, ForkchoiceUpdated}
        /\ lastDone.fwd = "offline")
    => (lastDone.reply.sent /\ lastDone.reply.body = NoUpstreamBody)

(* C4: an engine_forkchoiceUpdatedV1 request that arrived with k >= 1     *)
(* nodes alive was forwarded once synchronously, the caller got the       *)
(* status and body of that forward, and broadcast tasks were created for  *)
(* exactly the k-1 other nodes alive at arrival, none for the primary.    *)
C4_BroadcastPolicy ==
    (lastDone.done /\ lastDone.method = ForkchoiceUpdated /\ lastDone.arrival # {})
    => /\ lastDone.fwd = "response"
       /\ lastDone.reply.sent
       /\ lastDone.reply.status = lastDone.upstream[2]
       /\ lastDone.reply.body = lastDone.upstream[1]
       /\ lastDone.node \in lastDone.arrival
       /\ lastDone.bcast = lastDone.arrival \ {lastDone.node}

(* C5: whenever the forward returned a response, the reply to the caller  *)
(* has that status, that set of header lines and that body.               *)
C5_ResponseRelay ==
    (lastDone.done /\ lastDone.fwd = "response")
    => /\ lastDone.reply.sent
       /\ lastDone.reply.status = lastDone.upstream[2]
       /\ HeaderSet(lastDone.reply.headers) = HeaderSet(lastDone.upstream[3])
       /\ lastDone.reply.body = lastDone.upstream[1]

(* C6 as stated: a call of get_execution_node that returns a node returns *)
(* the node the previous call returned, if that node's flag has stayed    *)
(* set since, whatever sweeps completed in between.                       *)
C6_StickyAcrossSweeps ==
    [][(lastSel'.kind = "node" /\ sticky # Unset) => lastSel'.node = sticky]_vars

(* C6 amended: a call of get_execution_node made while alive_count > 0    *)
(* and the flag of the node at the cursor is set returns that node and    *)
(* leaves the cursor on it; and the cursor moves only when a recheck      *)
(* returns (to 0) or in a call made while the flag of its node is clear.  *)
(* So the node returned stays the same while its flag stays set, until    *)
(* the next sweep completes.                                              *)
C6_StickyUntilSweep ==
    [][/\ (lastSel'.kind # "none" /\ alive_count > 0 /\ status[Cursor])
          => (lastSel'.kind = "node" /\ lastSel'.node = Cursor /\ index' = Cursor)
       /\ (Cursor' # Cursor)
          => \/ SweepCompletes /\ index' = 0
             \/ lastSel'.kind # "none" /\ ~status[Cursor]]_vars

(* the node at position 1 was returned twice in a row, the node at        *)
(* position 0 being unhealthy                                             *)
C6_Witness ==
    /\ lastSel.kind = "node" /\ lastSel.node = 1 /\ lastSel.sticky = 1
    /\ ~status[0]

(* C7: an engine_getPayloadV1 request that arrived with at least one node *)
(* alive was forwarded to a node and the caller got that node's response. *)
C7_PayloadDispatch ==
    (lastDone.done /\ lastDone.method = GetPayload /\ lastDone.arrival # {})
    => (lastDone.fwd = "response" /\ lastDone.reply.sent
        /\ lastDone.reply.status = lastDone.upstream[2]
        /\ lastDone.reply.body = lastDone.upstream[1])

(* C8 as stated: in the state in which a recheck returns, every node's    *)
(* flag equals the result of its probe in that recheck.                   *)
C8_FlagsMatchProbes ==
    lastSweep.done => \A n \in Nodes : status[n] = (lastSweep.results[n] = "True")

(* C8 amended: in the state in which a recheck returns, every node's flag *)
(* equals the result of its probe in that recheck, except that the flag   *)
(* of a node whose probe succeeded is clear when a forward to it was      *)
(* caught failing after the probe returned; alive_count counts the probe  *)
(* results.                                                               *)
C8_FlagsMatchProbesUnlessForwardFailed ==
    lastSweep.done =>
        /\ \A n \in Nodes :
              status[n] = (lastSweep.results[n] = "True" /\ ~lastSweep.failed[n])
        /\ alive_count = CountTrue(lastSweep.results)

(* a recheck returned with a node whose probe succeeded and whose flag a  *)
(* failed forward has cleared since                                       *)
C8_Witness ==
    /\ lastSweep.done
    /\ \E n \in Nodes : lastSweep.results[n] = "True" /\ ~status[n]

(* C9: once the first recheck has returned, alive_count + dead_count =    *)
(* len(nodes) and both counters are in 0 .. len(nodes).                    *)
C9_CountsSumToLen ==
    (setupPc \in {"rechecked", "done"}) =>
        /\ alive_count \in 0 .. NumNodes
        /\ dead_count \in 0 .. NumNodes
        /\ alive_count + dead_count = NumNodes

(* a recheck has returned with nodes counted alive and nodes counted dead, *)
(* and the count of alive nodes is not the number of flags set            *)
C9_Witness ==
    /\ lastSweep.done /\ setupPc = "done"
    /\ alive_count >= 1 /\ dead_count >= 1
    /\ alive_count # Cardinality({n \in Nodes : status[n]})

(* C10: node_router_online is dispatched only after the recheck of setup  *)
(* has returned: the counters and the cursor are assigned and, until      *)
(* repeat_check starts its first recheck, no probe is outstanding.        *)
C10_OnlineAfterFirstSweep ==
    routerOnline =>
        /\ alive_count # Unset /\ dead_count # Unset /\ index # Unset
        /\ loopPc = "off" => \A n \in Nodes : probe[n] = "idle"

(* node_router_online has just been dispatched, after a first sweep that  *)
(* found a node alive                                                     *)
C10_Witness ==
    routerOnline /\ loopPc = "off" /\ alive_count >= 1 /\ reqs = [r \in Reqs |-> IdleReq]

(* C11: a call of set_online or set_offline leaves the node's flag in the  *)
(* call's direction; a call in the direction the flag already has changes *)
(* no flag and dispatches no event; a call against the flag dispatches    *)
(* exactly the one event of its direction; and the second of two calls of *)
(* the same setter in a row on the same node changes and dispatches       *)
(* nothing.                                                               *)
C11_SettersIdempotent ==
    [][LET c == lastCall'
           dir == (c.setter = "set_online")
           event == IF dir THEN "node_online" ELSE "node_offline"
       IN  c.setter # "" =>
             /\ status'[c.node] = dir
             /\ \A m \in Nodes \ {c.node} : status'[m] = status[m]
             /\ IF status[c.node] = dir
                THEN status' = status /\ lastEvent' = lastEvent /\ c.emits = << >>
                ELSE c.emits = <<event>> /\ lastEvent'[c.node] = event
             /\ c.again =>
                   status' = status /\ lastEvent' = lastEvent /\ c.emits = << >>
      ]_vars

(* set_offline was called twice in a row on a node that had been online *)
C11_Witness ==
    /\ lastCall.setter = "set_offline" /\ lastCall.again
    /\ lastEvent[lastCall.node] = "node_offline"
    /\ ~status[lastCall.node]

(* C12: whenever get_execution_node fails at line 89, having read         *)
(* alive_count == 0, no node's status is true at that moment, also while  *)
(* some probes of a recheck have returned and others have not.            *)
C12_OutOfNodesOnlyWhenAllDead ==
    lastSel.kind = "OutOfAliveNodes" => lastSel.allDead

(* the first node whose flag is set, scanning from position c to the end  *)
(* of the list and on from its start                                      *)
FirstAliveFrom(st, c) ==
    LET k == CHOOSE k \in 0 .. (NumNodes - 1) :
                 /\ st[(c + k) % NumNodes]
                 /\ \A j \in 0 .. (k - 1) : ~st[(c + j) % NumNodes]
    IN  (c + k) % NumNodes

(* C13: whenever get_execution_node returns a node, that node's status is *)
(* true at the return, it is the first node with a true status at or      *)
(* cyclically after the value index had on entry, index is left at the    *)
(* returned node, and index is not changed when the node it pointed at    *)
(* on entry was alive.                                                    *)
C13_ReturnsFirstAliveFromCursor ==
    lastSel.kind = "node" =>
        /\ status[lastSel.node]
        /\ lastSel.node = FirstAliveFrom(status, lastSel.cursor % NumNodes)
        /\ index = lastSel.node
        /\ (lastSel.cursor < NumNodes /\ status[lastSel.cursor])
               => index = lastSel.cursor

(* the selection skipped the dead node at the cursor, wrapped at the end  *)
(* of the list and returned a node before the cursor                      *)
C13_Witness ==
    /\ lastSel.kind = "node"
    /\ lastSel.node < lastSel.cursor /\ lastSel.cursor < NumNodes
    /\ ~status[lastSel.cursor] /\ status[lastSel.node]

(* C14: a node whose forward ended in a connectivity failure is not       *)
(* returned by get_execution_node and gets no broadcast task until a      *)
(* probe marks it online again; and a request that arrives while another  *)
(* node's status is true is forwarded to a node with a true status other  *)
(* than the failed one.                                                   *)
C14_Failover ==
    /\ lastSel.kind = "node" => ~downSince[lastSel.node]
    /\ lastDone.done => \A n \in lastDone.bcast : ~downSince[n]
    /\ \A n \in Nodes :
          (lastSel.kind # "none" /\ downSince[n]
              /\ \E m \in Nodes \ {n} : status[m])
          => (lastSel.kind = "node" /\ lastSel.node # n /\ status[lastSel.node])

(* C15: do_request never ends in an exception: it returns the response    *)
(* tuple or the ServerOffline object; when it returns ServerOffline the   *)
(* node's status is false, and when it returns the tuple the node's       *)
(* status is what it was before the call.                                 *)
C15_ForwardNeverRaises ==
    lastCall.op = "do_request" =>
        /\ lastCall.result \in {"tuple", "ServerOffline"}
        /\ lastCall.result = "ServerOffline" => ~status[lastCall.node]
        /\ lastCall.result = "tuple" => status[lastCall.node] = lastCall.was

(* C16: every position at which a call of get_execution_node indexes      *)
(* self.nodes lies in 0 .. len(nodes) - 1, whatever requests and rechecks *)
(* came before the call.                                                  *)
C16_IndexInRange ==
    lastSel.kind # "none" =>
        IndexesRead(status, lastSel.alive, lastSel.cursor, 1) \subseteq Nodes

(* a call entered with index past the first node read the last node and,  *)
(* wrapped, the first                                                     *)
C16_Witness ==
    /\ lastSel.kind # "none" /\ lastSel.cursor >= 1
    /\ {0, NumNodes - 1} \subseteq
           IndexesRead(status, lastSel.alive, lastSel.cursor, 1)

(* the step is the end of a do_request on node n: the awaited forward of  *)
(* a handler or a broadcast task                                          *)
ForwardEndsOn(n) ==
    \* what each of the four actions below leaves alone, tested first
    /\ probe' = probe /\ lastSel' = NoSel /\ lastSweep' = NoSweep
    /\ \/ \E r \in Reqs :
             /\ reqs[r].pc = "fwd" /\ reqs[r].node = n
             /\ \/ \E resp \in NodeResponses : DoRequestReturn(r, resp)
                \/ \E e \in ForwardErrors : DoRequestFail(r, e)
       \/ BroadcastReturn(n)
       \/ \E e \in ForwardErrors, more \in BOOLEAN : BroadcastFail(n, e, more)

(* C17: a node's status goes from false to true only in the return of its *)
(* check_alive; alive_count and dead_count change only in the return of   *)
(* recheck; and the end of a do_request on node n, awaited or as a        *)
(* broadcast task, changes at most n's status, from true to false, and    *)
(* leaves alive_count, dead_count, index and every other status as they   *)
(* were.                                                                  *)
C17_WritersOfHealthState ==
    [][/\ \A n \in Nodes :
            (~status[n] /\ status'[n])
            => \E o \in ProbeOutcomes : CheckAliveReturn(n, o)
       /\ (alive_count' # alive_count \/ dead_count' # dead_count)
            => RecheckReturn
       /\ \A n \in Nodes :
            \/ /\ alive_count' = alive_count /\ dead_count' = dead_count
               /\ index' = index
               /\ \A m \in Nodes \ {n} : status'[m] = status[m]
               /\ status'[n] # status[n] => (status[n] /\ ~status'[n])
            \/ ~ForwardEndsOn(n)
      ]_vars

(* a forward cleared the status of a node this recheck had found alive;   *)
(* another node is still flagged and the counters are those of the last   *)
(* recheck                                                                *)
C17_Witness ==
    \E n \in Nodes :
        /\ failedSince[n] /\ ~status[n]
        /\ \E m \in Nodes \ {n} : status[m]
        /\ alive_count = NumNodes /\ dead_count = 0

(* a recheck is between its first line and the return of its gather *)
SweepInProgress == setupPc = "recheck" \/ loopPc = "recheck"

(* C18: once the first recheck has returned, in every state in which no   *)
(* recheck is in progress alive_count is at least the number of nodes     *)
(* whose status is true, and a get_execution_node that fails at line 89   *)
(* in such a state finds no node with a true status.                      *)
C18_CountCoversFlagsOutsideSweep ==
    (alive_count # Unset /\ ~SweepInProgress) =>
        /\ alive_count >= Cardinality({n \in Nodes : status[n]})
        /\ lastSel.kind = "OutOfAliveNodes" => lastSel.allDead

(* between two rechecks a forward has cleared a status: alive_count is    *)
(* above the number of flagged nodes, which is not zero                   *)
C18_Witness ==
    /\ loopPc = "sleep"
    /\ alive_count = NumNodes
    /\ Cardinality({n \in Nodes : status[n]}) = NumNodes - 1

(* the events the step dispatches for node n *)
EmittedFor(n) == IF lastCall'.node = n THEN lastCall'.emits ELSE << >>

(* C19: for each node, the first event dispatched is node_online and      *)
(* every later one differs from the one before it; and the node's status  *)
(* is true exactly when the last event dispatched for it is node_online   *)
(* (a flip and its dispatch are one step), whatever the order of the      *)
(* check_alive and do_request calls on the node.                          *)
C19_EventsAlternate ==
    /\ [](\A n \in Nodes : status[n] = (lastEvent[n] = "node_online"))
    /\ [][\A n \in Nodes :
            LET ev == EmittedFor(n)
            IN  /\ Len(ev) <= 1
                /\ Len(ev) = 1 =>
                      /\ IF lastEvent[n] = "none"
                         THEN ev[1] = "node_online"
                         ELSE ev[1] # lastEvent[n]
                      /\ lastEvent'[n] = ev[1]
                /\ Len(ev) = 0 => lastEvent'[n] = lastEvent[n]
        ]_vars

(* a do_request dispatched node_offline for a node a probe had marked     *)
(* online, while another node has its own history of events               *)
C19_Witness ==
    /\ lastCall.op = "do_request" /\ lastCall.emits = <<"node_offline">>
    /\ lastEvent[lastCall.node] = "node_offline" /\ ~status[lastCall.node]
    /\ \E m \in Nodes \ {lastCall.node} : lastEvent[m] = "node_online"

(* the event loop runs every task that is ready: setup and repeat_check   *)
(* go on once what they await is done, the sleep of line 79 elapses, and  *)
(* every probe ends, by its answer or by the timeout of line 33           *)
LoopFairness ==
    /\ WF_vars(Setup)
    /\ WF_vars(SetupAnnounce)
    /\ WF_vars(RepeatCheck)
    /\ WF_vars(RecheckReturn)
    /\ \A n \in Nodes : WF_vars(\E o \in ProbeOutcomes : CheckAliveReturn(n, o))

(* the health loop alone: setup and repeat_check with their probes, and  *)
(* do_request ending on any node at any time, as whatever requests are in *)
(* flight may make it                                                     *)
HealthNext ==
    \/ Setup
    \/ \E n \in Nodes, o \in ProbeOutcomes : CheckAliveReturn(n, o)
    \/ RecheckReturn
    \/ SetupAnnounce
    \/ RepeatCheck
    \/ \E n \in Nodes, e \in ForwardErrors \cup {""} : NodeDoRequest(n, e)

SpecHealth == InitObserved /\ [][HealthNext]_vars /\ LoopFairness

(* no probe of node n ends in this step with another answer than "not    *)
(* syncing"                                                               *)
AnswersNotSyncing(n) ==
    \A o \in ProbeOutcomes \ {"not_syncing"} : ~CheckAliveReturn(n, o)

(* a get_execution_node called now returns a node, wherever index is *)
SelectorSucceeds ==
    /\ alive_count # Unset
    /\ \A idx \in 0 .. NumNodes :
          get_execution_node(status, alive_count, idx, 1).kind = "node"

(* C20: with repeat_check running and every probe ending, if from some    *)
(* point on node n answers every probe as not syncing, then whenever its  *)
(* status is false it is later true again, and again and again there is   *)
(* a state with alive_count positive in which get_execution_node returns  *)
(* a node.                                                                *)
C20_HealthLoopRecovers ==
    \A n \in Nodes :
        <>[][AnswersNotSyncing(n)]_vars
        => /\ []<>status[n]
           /\ []<>(alive_count > 0 /\ SelectorSucceeds)

(* in a recheck of repeat_check, after a recheck that had found every     *)
(* node alive, the probe of a node whose status a forward had cleared     *)
(* set it again, and a get_execution_node called now returns a node       *)
C20_Witness ==
    /\ loopPc = "recheck" /\ alive_count = NumNodes
    /\ lastCall.op = "check_alive" /\ lastCall.setter = "set_online"
    /\ ~lastCall.was /\ status[lastCall.node]
    /\ SelectorSucceeds

====
